---------------------------- MODULE Spec2Model ----------------------------
(***************************************************************************)
(* Model of poc/jamendoSpec/solver.py: the Solver class that trains an     *)
(* audio auto-tagging CNN with a staged optimizer schedule, keeps the best *)
(* model in best_model.pth, and evaluates it with get_auc_turbo.           *)
(*                                                                         *)
(* Three specifications share the variables:                               *)
(*   Spec      Solver.train  (epoch loop, checkpoint, _schedule)           *)
(*   SpecCkpt  Solver.save / Solver.load called on their own               *)
(*   SpecEval  Solver.test   (load, batch loop, get_auc_turbo, np.save)    *)
(***************************************************************************)
EXTENDS Integers, Sequences, FiniteSets, TLC

(***************************************************************************)
(* Bounds of the model.                                                    *)
(***************************************************************************)
\* n_epochs of the longest run; above 100 so that all phases are visited
MaxEpochs == 102
\* a parameter tensor takes the values 0..MaxParam
MaxParam == 1
\* validation macro ROC-AUC takes the values 0..MaxAuc (0 = the zero floor)
MaxAuc == 2
\* len(self.tag_list): the number of labels of the active subset
NumLabels == 3
\* the evaluation stream holds at most MaxRows clips
MaxRows == 2
\* config.split takes the values 0..MaxSplit
MaxSplit == 4

(***************************************************************************)
(* Program constants.                                                      *)
(***************************************************************************)
\* _schedule: `current_optimizer == 'adam' and drop_counter == 60`
AdamEpochs == 60
\* _schedule: `current_optimizer == 'sgd_1' and drop_counter == 20`
Sgd1Epochs == 20
\* _schedule: `current_optimizer == 'sgd_2' and drop_counter == 20`
Sgd2Epochs == 20
\* learning rates in units of 1e-5
\* __init__: self.lr = 1e-4
LrAdam == 10
\* _schedule: torch.optim.SGD(..., 0.001, ...)
LrSgd1 == 100
\* _schedule: pg['lr'] = 0.0001
LrSgd2 == 10
\* _schedule: pg['lr'] = 0.00001
LrSgd3 == 1
\* momentum=0.9 in tenths; weight_decay=0.0001 in units of 1e-5
Momentum == 9
WeightDecay == 10

\* the parameter names of the CNN's state_dict
ParamNames == {"w"}
\* model.state_dict(): parameter name -> tensor
ModelStates == [ParamNames -> 0..MaxParam]
AucValues == 0..MaxAuc
\* os.path.join(self.model_save_path, 'best_model.pth')
BestModel == "best_model.pth"
FileNames == {BestModel, "other.pth"}
\* n_epochs = config.num_epochs
Budgets == {0, 1, AdamEpochs, MaxEpochs}

VARIABLES
    pc,                 \* position of train(): loop, validate, save, schedule, done, aborted
    n_epochs,           \* self.n_epochs
    epoch,              \* number of loop iterations begun
    current_optimizer,  \* train's local current_optimizer
    drop_counter,       \* train's local drop_counter
    best_roc_auc,       \* train's local best_roc_auc
    roc_auc,            \* the last validation's macro ROC-AUC
    model,              \* self.model's state_dict
    optimizer,          \* self.optimizer
    files,              \* the file system: file name -> <<>> (absent) or <<object>>
    raised,             \* the exception that ended the call, or "none"
    saves,              \* history: checkpoints written by this run
    maxSeen,            \* history: the highest validation ROC-AUC observed
    topStates,          \* history: the model states that produced maxSeen
    drift,              \* history: the last _schedule call replaced a different model state
    last_loads,         \* history: self.load calls made by the last _schedule call
    io,                 \* the last direct call of Solver.save / Solver.load
    last_saved,         \* history: file name -> what Solver.save last wrote there
    tpc,                \* position of test(): load, batches, metrics, persist, done, aborted
    prd_array,          \* test's prd_array: the prediction rows read so far
    gt_array,           \* test's gt_array: the ground-truth rows read so far
    result,             \* <<>> or <<what get_auc_turbo returned or raised>>
    roc_auc_file,       \* the file self.roc_auc_fn: <<>> or <<array>>
    pr_auc_file,        \* the file self.pr_auc_fn: <<>> or <<array>>
    ipc,                \* the position inside __init__
    subset,             \* config.subset
    split,              \* config.split
    is_cuda,            \* torch.cuda.is_available()
    self_tag_list,      \* self.tag_list
    num_class,          \* self.num_class, 0 while unset
    out_dim,            \* the num_class the CNN was built with, 0 before
    roc_auc_fn,         \* self.roc_auc_fn
    pr_auc_fn           \* self.pr_auc_fn

vars == <<pc, n_epochs, epoch, current_optimizer, drop_counter, best_roc_auc,
          roc_auc, model, optimizer, files, raised, saves, maxSeen, topStates,
          drift, last_loads, io, last_saved, tpc, prd_array, gt_array, result,
          roc_auc_file, pr_auc_file, ipc, subset, split, is_cuda, self_tag_list,
          num_class, out_dim, roc_auc_fn, pr_auc_fn>>

\* the variables of __init__
cfgVars == <<ipc, subset, split, is_cuda, self_tag_list, num_class, out_dim,
             roc_auc_fn, pr_auc_fn>>

\* the variables of the direct save/load calls
ckptVars == <<io, last_saved>>

\* the variables of test()
evalVars == <<tpc, prd_array, gt_array, result, roc_auc_file, pr_auc_file>>

\* the variables of train() that neither test() nor a direct call touches
trainVars == <<pc, n_epochs, epoch, current_optimizer, drop_counter, best_roc_auc,
               roc_auc, optimizer, saves, maxSeen, topStates, drift, last_loads>>

(***************************************************************************)
(* Checkpoint files.                                                       *)
(***************************************************************************)
\* torch.save(obj, filename): the file holds the pickled object
TorchSave(fs, filename, obj) == [fs EXCEPT ![filename] = <<obj>>]

\* mutant: a load that returns silently when the file is absent
Load_Silent(m, fs, filename) ==
    IF fs[filename] = <<>>
    THEN [raised |-> "none", model |-> m]
    ELSE LET S == fs[filename][1] IN
         IF DOMAIN S # DOMAIN m
         THEN [raised |-> "RuntimeError", model |-> m]
         ELSE [raised |-> "none", model |-> S]

\* Solver.load: torch.load raises when the file is absent; load_state_dict
\* (strict) raises unless the loaded mapping has exactly the model's keys
Load(m, fs, filename) ==
    IF fs[filename] = <<>>
    THEN [raised |-> "FileNotFoundError", model |-> m]
    ELSE LET S == fs[filename][1] IN
         IF DOMAIN S # DOMAIN m
         THEN [raised |-> "RuntimeError", model |-> m]
         ELSE [raised |-> "none", model |-> S]

\* Solver.save: the state_dict is wrapped in a dict under the key 'model'
Save(m, fs, filename) == TorchSave(fs, filename, [model |-> m])

(***************************************************************************)
(* Optimizers.                                                             *)
(***************************************************************************)
\* build_model: torch.optim.Adam(self.model.parameters(), self.lr)
\* (Adam has no momentum term; its weight decay defaults to 0)
Adam == [id |-> 0, algo |-> "Adam", lr |-> LrAdam, momentum |-> 0,
         weight_decay |-> 0, nesterov |-> FALSE]

\* torch.optim.SGD(params, 0.001, momentum=0.9, weight_decay=0.0001, nesterov=True):
\* a new optimizer object
NewSGD(old) == [id |-> old.id + 1, algo |-> "SGD", lr |-> LrSgd1,
                momentum |-> Momentum, weight_decay |-> WeightDecay,
                nesterov |-> TRUE]

\* for pg in self.optimizer.param_groups: pg['lr'] = lr
SetLr(opt, lr) == [opt EXCEPT !.lr = lr]

(***************************************************************************)
(* _schedule: three consecutive `if` statements over a context c =         *)
(* [current_optimizer, drop_counter, model, optimizer, raised, loads].     *)
(* An exception raised by self.load leaves the rest of the call undone.    *)
(***************************************************************************)
\* mutant: the first transition names the wrong phase
IfAdam_Skip(c, fs) ==
    IF c.raised = "none" /\ c.current_optimizer = "adam" /\ c.drop_counter = AdamEpochs
    THEN LET l == Load(c.model, fs, BestModel) IN
         IF l.raised # "none"
         THEN [c EXCEPT !.raised = l.raised, !.loads = @ + 1]
         ELSE [c EXCEPT !.model = l.model,
                        !.loads = @ + 1,
                        !.optimizer = NewSGD(@),
                        !.current_optimizer = "sgd_2",
                        !.drop_counter = 0]
    ELSE c

\* mutant: the first transition forgets to reset drop_counter
IfAdam_NoReset(c, fs) ==
    IF c.raised = "none" /\ c.current_optimizer = "adam" /\ c.drop_counter = AdamEpochs
    THEN LET l == Load(c.model, fs, BestModel) IN
         IF l.raised # "none"
         THEN [c EXCEPT !.raised = l.raised, !.loads = @ + 1]
         ELSE [c EXCEPT !.model = l.model,
                        !.loads = @ + 1,
                        !.optimizer = NewSGD(@),
                        !.current_optimizer = "sgd_1"]
    ELSE c

\* mutant: the first transition fires one epoch early
IfAdam_Early(c, fs) ==
    IF c.raised = "none" /\ c.current_optimizer = "adam" /\ c.drop_counter = AdamEpochs - 1
    THEN LET l == Load(c.model, fs, BestModel) IN
         IF l.raised # "none"
         THEN [c EXCEPT !.raised = l.raised, !.loads = @ + 1]
         ELSE [c EXCEPT !.model = l.model,
                        !.loads = @ + 1,
                        !.optimizer = NewSGD(@),
                        !.current_optimizer = "sgd_1",
                        !.drop_counter = 0]
    ELSE c

IfAdam(c, fs) ==
    IF c.raised = "none" /\ c.current_optimizer = "adam" /\ c.drop_counter = AdamEpochs
    THEN LET l == Load(c.model, fs, BestModel) IN
         IF l.raised # "none"
         THEN [c EXCEPT !.raised = l.raised, !.loads = @ + 1]
         ELSE [c EXCEPT !.model = l.model,
                        !.loads = @ + 1,
                        !.optimizer = NewSGD(@),
                        !.current_optimizer = "sgd_1",
                        !.drop_counter = 0]
    ELSE c

\* mutant: the first drop keeps the current weights
IfSgd1_NoReload(c, fs) ==
    IF c.raised = "none" /\ c.current_optimizer = "sgd_1" /\ c.drop_counter = Sgd1Epochs
    THEN [c EXCEPT !.optimizer = SetLr(@, LrSgd2),
                   !.current_optimizer = "sgd_2",
                   !.drop_counter = 0]
    ELSE c

\* mutant: the first drop forgets to reset drop_counter
IfSgd1_NoReset(c, fs) ==
    IF c.raised = "none" /\ c.current_optimizer = "sgd_1" /\ c.drop_counter = Sgd1Epochs
    THEN LET l == Load(c.model, fs, BestModel) IN
         IF l.raised # "none"
         THEN [c EXCEPT !.raised = l.raised, !.loads = @ + 1]
         ELSE [c EXCEPT !.model = l.model,
                        !.loads = @ + 1,
                        !.optimizer = SetLr(@, LrSgd2),
                        !.current_optimizer = "sgd_2"]
    ELSE c

IfSgd1(c, fs) ==
    IF c.raised = "none" /\ c.current_optimizer = "sgd_1" /\ c.drop_counter = Sgd1Epochs
    THEN LET l == Load(c.model, fs, BestModel) IN
         IF l.raised # "none"
         THEN [c EXCEPT !.raised = l.raised, !.loads = @ + 1]
         ELSE [c EXCEPT !.model = l.model,
                        !.loads = @ + 1,
                        !.optimizer = SetLr(@, LrSgd2),
                        !.current_optimizer = "sgd_2",
                        !.drop_counter = 0]
    ELSE c

\* mutant: the second drop builds a new optimizer
IfSgd2_NewOptimizer(c, fs) ==
    IF c.raised = "none" /\ c.current_optimizer = "sgd_2" /\ c.drop_counter = Sgd2Epochs
    THEN LET l == Load(c.model, fs, BestModel) IN
         IF l.raised # "none"
         THEN [c EXCEPT !.raised = l.raised, !.loads = @ + 1]
         ELSE [c EXCEPT !.model = l.model,
                        !.loads = @ + 1,
                        !.optimizer = SetLr(NewSGD(@), LrSgd3),
                        !.current_optimizer = "sgd_3"]
    ELSE c

\* the second drop does not reset drop_counter
IfSgd2(c, fs) ==
    IF c.raised = "none" /\ c.current_optimizer = "sgd_2" /\ c.drop_counter = Sgd2Epochs
    THEN LET l == Load(c.model, fs, BestModel) IN
         IF l.raised # "none"
         THEN [c EXCEPT !.raised = l.raised, !.loads = @ + 1]
         ELSE [c EXCEPT !.model = l.model,
                        !.loads = @ + 1,
                        !.optimizer = SetLr(@, LrSgd3),
                        !.current_optimizer = "sgd_3"]
    ELSE c

Schedule(c, fs) == IfSgd2(IfSgd1(IfAdam(c, fs), fs), fs)

(***************************************************************************)
(* Solver.__init__: the label subset, the file names, the model.           *)
(***************************************************************************)
Subsets == {"all", "genre", "instrument", "moodtheme", "top50tags"}

\* the num_class of each subset
NumClassAll == 183
NumClassGenre == 87
NumClassInstrument == 40
NumClassMoodtheme == 56
NumClassTop50 == 50
\* the slice bounds: [:87], [87:127], [127:]
GenreStop == 87
InstrumentStart == 87
InstrumentStop == 127
MoodthemeStart == 127

\* scripts/baseline/tag_list.npy: the master list, a label being its number
TagListNpy == [i \in 1..NumClassAll |-> i]
\* scripts/baseline/tag_list_50.npy: a list of its own
TagList50Npy == [i \in 1..NumClassTop50 |-> NumClassAll + i]

\* get_tag_list(config, root)
GetTagList(sub) == IF sub = "top50tags" THEN TagList50Npy ELSE TagListNpy

\* a[lo:hi] of Python (0-based, hi excluded, both cut to the length)
Slice(a, lo, hi) ==
    LET h == IF hi > Len(a) THEN Len(a) ELSE hi
    IN IF lo >= h THEN <<>> ELSE SubSeq(a, lo + 1, h)

\* mutant: the instrument slice stops one label early
SubsetTags_Short(sub, tags) ==
    IF sub = "genre" THEN Slice(tags, 0, GenreStop)
    ELSE IF sub = "instrument" THEN Slice(tags, InstrumentStart, InstrumentStop - 1)
    ELSE IF sub = "moodtheme" THEN Slice(tags, MoodthemeStart, Len(tags))
    ELSE tags

\* the self.tag_list the if/elif chain leaves
SubsetTags(sub, tags) ==
    IF sub = "genre" THEN Slice(tags, 0, GenreStop)
    ELSE IF sub = "instrument" THEN Slice(tags, InstrumentStart, InstrumentStop)
    ELSE IF sub = "moodtheme" THEN Slice(tags, MoodthemeStart, Len(tags))
    ELSE tags

\* the self.num_class the if/elif chain leaves
NumClass(sub) ==
    IF sub = "all" THEN NumClassAll
    ELSE IF sub = "genre" THEN NumClassGenre
    ELSE IF sub = "instrument" THEN NumClassInstrument
    ELSE IF sub = "moodtheme" THEN NumClassMoodtheme
    ELSE NumClassTop50

\* 'roc_auc_'+config.subset+'_'+str(config.split)+'.npy'
FileName(prefix, sub, sp) == <<prefix, sub, "_", sp, ".npy">>

\* before build_model there is no optimizer
NoOptimizer == [Adam EXCEPT !.algo = "none"]

\* the configuration is of no account in the runs of the other methods
CfgIdle ==
    /\ ipc = "idle"
    /\ subset = "all"
    /\ split = 0
    /\ is_cuda = FALSE
    /\ self_tag_list = <<>>
    /\ num_class = 0
    /\ out_dim = 0
    /\ roc_auc_fn = <<>>
    /\ pr_auc_fn = <<>>

InitCfg ==
    /\ pc = "idle"
    /\ n_epochs = 0
    /\ epoch = 0
    /\ current_optimizer = "adam"
    /\ drop_counter = 0
    /\ best_roc_auc = 0
    /\ roc_auc = 0
    /\ model = [p \in ParamNames |-> 0]
    /\ optimizer = NoOptimizer
    /\ files = [f \in FileNames |-> <<>>]
    /\ raised = "none"
    /\ saves = 0
    /\ maxSeen = 0
    /\ topStates = {}
    /\ drift = FALSE
    /\ last_loads = 0
    /\ io = [op |-> "none", file |-> BestModel, ok |-> TRUE]
    /\ last_saved = [f \in FileNames |-> <<>>]
    /\ tpc = "idle"
    /\ prd_array = <<>>
    /\ gt_array = <<>>
    /\ result = <<>>
    /\ roc_auc_file = <<>>
    /\ pr_auc_file = <<>>
    /\ ipc = "start"
    /\ subset \in Subsets
    /\ split \in 0..MaxSplit
    /\ is_cuda \in BOOLEAN
    /\ self_tag_list = <<>>
    /\ num_class = 0
    /\ out_dim = 0
    /\ roc_auc_fn = <<>>
    /\ pr_auc_fn = <<>>

\* self.tag_list = self.get_tag_list(config, root)
LoadTagList ==
    /\ ipc = "start"
    /\ self_tag_list' = GetTagList(subset)
    /\ ipc' = "tags"
    /\ UNCHANGED <<trainVars, ckptVars, evalVars, model, files, raised, subset,
                   split, is_cuda, num_class, out_dim, roc_auc_fn, pr_auc_fn>>

\* the if/elif chain on config.subset
SelectSubset ==
    /\ ipc = "tags"
    /\ num_class' = NumClass(subset)
    /\ self_tag_list' = SubsetTags(subset, self_tag_list)
    /\ ipc' = "subset"
    /\ UNCHANGED <<trainVars, ckptVars, evalVars, model, files, raised, subset,
                   split, is_cuda, out_dim, roc_auc_fn, pr_auc_fn>>

\* self.roc_auc_fn = ...; self.pr_auc_fn = ...
NameFiles ==
    /\ ipc = "subset"
    /\ roc_auc_fn' = FileName("roc_auc_", subset, split)
    /\ pr_auc_fn' = FileName("pr_auc_", subset, split)
    /\ ipc' = "names"
    /\ UNCHANGED <<trainVars, ckptVars, evalVars, model, files, raised, subset,
                   split, is_cuda, self_tag_list, num_class, out_dim>>

\* self.build_model(): CNN(num_class=self.num_class) with fresh weights, Adam
BuildModel ==
    /\ ipc = "names"
    /\ model' \in ModelStates
    /\ out_dim' = num_class
    /\ optimizer' = Adam
    /\ ipc' = "built"
    /\ UNCHANGED <<pc, n_epochs, epoch, current_optimizer, drop_counter,
                   best_roc_auc, roc_auc, saves, maxSeen, topStates, drift,
                   last_loads, ckptVars, evalVars, files, raised, subset, split,
                   is_cuda, self_tag_list, num_class, roc_auc_fn, pr_auc_fn>>

NextCfg == LoadTagList \/ SelectSubset \/ NameFiles \/ BuildModel

SpecCfg == InitCfg /\ [][NextCfg]_vars

(***************************************************************************)
(* Solver.train                                                            *)
(***************************************************************************)
\* mutant: any different value counts as an improvement
Improved_Ne(roc, best) == roc # best

\* mutant: an equal value counts as an improvement
Improved_Ge(roc, best) == roc >= best

\* `if roc_auc > best_roc_auc`
Improved(roc, best) == roc > best

\* the state after __init__ and the first lines of train()
Init ==
    /\ pc = "loop"
    /\ n_epochs \in Budgets
    /\ epoch = 0
    /\ current_optimizer = "adam"
    /\ drop_counter = 0
    /\ best_roc_auc = 0
    /\ roc_auc = 0
    /\ model \in ModelStates
    /\ optimizer = Adam
    \* best_model.pth may be left over from an earlier run
    /\ files \in {[f \in FileNames |-> IF f = BestModel THEN c ELSE <<>>] :
                    c \in {<<>>} \cup {<<m>> : m \in ModelStates}}
    /\ raised = "none"
    /\ saves = 0
    /\ maxSeen = 0
    /\ topStates = {}
    /\ drift = FALSE
    /\ last_loads = 0
    /\ io = [op |-> "none", file |-> BestModel, ok |-> TRUE]
    /\ last_saved = [f \in FileNames |-> <<>>]
    /\ tpc = "idle"
    /\ prd_array = <<>>
    /\ gt_array = <<>>
    /\ result = <<>>
    /\ roc_auc_file = <<>>
    /\ pr_auc_file = <<>>
    /\ CfgIdle

\* mutant: the loop runs one epoch more than n_epochs
TrainEpoch_Extra ==
    /\ pc = "loop"
    /\ epoch <= n_epochs
    /\ epoch' = epoch + 1
    /\ drop_counter' = drop_counter + 1
    /\ model' \in ModelStates
    /\ drift' = FALSE
    /\ pc' = "validate"
    /\ UNCHANGED <<n_epochs, current_optimizer, best_roc_auc, roc_auc, optimizer,
                   files, raised, saves, maxSeen, topStates, last_loads, ckptVars, evalVars, cfgVars>>

\* `for epoch in range(self.n_epochs)`: drop_counter += 1, then one pass over
\* self.data_loader with an optimizer step per batch
TrainEpoch ==
    /\ pc = "loop"
    /\ epoch < n_epochs
    /\ epoch' = epoch + 1
    /\ drop_counter' = drop_counter + 1
    /\ model' \in ModelStates
    /\ drift' = FALSE
    /\ pc' = "validate"
    /\ UNCHANGED <<n_epochs, current_optimizer, best_roc_auc, roc_auc, optimizer,
                   files, raised, saves, maxSeen, topStates, last_loads, ckptVars, evalVars, cfgVars>>

\* the loop is exhausted: "Train finished"
TrainFinished ==
    /\ pc = "loop"
    /\ epoch = n_epochs
    /\ pc' = "done"
    /\ UNCHANGED <<n_epochs, epoch, current_optimizer, drop_counter, best_roc_auc,
                   roc_auc, model, optimizer, files, raised, saves, maxSeen,
                   topStates, drift, last_loads, ckptVars, evalVars, cfgVars>>

\* roc_auc, _ = self._validation(start_t, epoch)
Validation ==
    /\ pc = "validate"
    /\ \E r \in AucValues :
         /\ roc_auc' = r
         /\ maxSeen' = IF r > maxSeen THEN r ELSE maxSeen
         /\ topStates' = IF r > maxSeen THEN {model}
                         ELSE IF r = maxSeen THEN topStates \cup {model}
                         ELSE topStates
    /\ pc' = "save"
    /\ UNCHANGED <<n_epochs, epoch, current_optimizer, drop_counter, best_roc_auc,
                   model, optimizer, files, raised, saves, drift, last_loads, ckptVars, evalVars, cfgVars>>

\* `if roc_auc > best_roc_auc:` best_roc_auc = roc_auc; torch.save(state_dict, best_model.pth)
SaveBest ==
    /\ pc = "save"
    /\ IF Improved(roc_auc, best_roc_auc)
       THEN /\ best_roc_auc' = roc_auc
            /\ files' = TorchSave(files, BestModel, model)
            /\ saves' = saves + 1
       ELSE UNCHANGED <<best_roc_auc, files, saves>>
    /\ pc' = "schedule"
    /\ UNCHANGED <<n_epochs, epoch, current_optimizer, drop_counter, roc_auc, model,
                   optimizer, raised, maxSeen, topStates, drift, last_loads, ckptVars, evalVars, cfgVars>>

\* current_optimizer, drop_counter = self._schedule(current_optimizer, drop_counter)
ScheduleStep ==
    /\ pc = "schedule"
    /\ LET c == Schedule([current_optimizer |-> current_optimizer,
                          drop_counter |-> drop_counter,
                          model |-> model,
                          optimizer |-> optimizer,
                          raised |-> "none",
                          loads |-> 0], files)
       IN /\ last_loads' = c.loads
          /\ IF c.raised # "none"
             THEN \* the exception propagates out of train(): no assignment is made
                  /\ pc' = "aborted"
                  /\ raised' = c.raised
                  /\ UNCHANGED <<current_optimizer, drop_counter, model, optimizer, drift>>
             ELSE /\ pc' = "loop"
                  /\ current_optimizer' = c.current_optimizer
                  /\ drop_counter' = c.drop_counter
                  /\ model' = c.model
                  /\ optimizer' = c.optimizer
                  /\ drift' = (c.loads > 0 /\ c.model # model)
                  /\ UNCHANGED raised
    /\ UNCHANGED <<n_epochs, epoch, best_roc_auc, roc_auc, files, saves, maxSeen,
                   topStates, ckptVars, evalVars, cfgVars>>

Next == TrainEpoch \/ TrainFinished \/ Validation \/ SaveBest \/ ScheduleStep

Spec == Init /\ [][Next]_vars

\* train() is one sequential thread: while a statement is left, it runs
FairSpec == Spec /\ WF_vars(Next)

(***************************************************************************)
(* Solver._schedule called once on any (current_optimizer, drop_counter).  *)
(***************************************************************************)
Phases == {"adam", "sgd_1", "sgd_2", "sgd_3"}

InitSched ==
    /\ pc = "schedule"
    /\ n_epochs = MaxEpochs
    /\ epoch = 0
    /\ current_optimizer \in Phases
    /\ drop_counter \in 0..MaxEpochs
    /\ best_roc_auc = 0
    /\ roc_auc = 0
    /\ model \in ModelStates
    /\ optimizer = IF current_optimizer = "adam" THEN Adam ELSE NewSGD(Adam)
    /\ files \in {[f \in FileNames |-> IF f = BestModel THEN c ELSE <<>>] :
                    c \in {<<>>} \cup {<<m>> : m \in ModelStates}}
    /\ raised = "none"
    /\ saves = 0
    /\ maxSeen = 0
    /\ topStates = {}
    /\ drift = FALSE
    /\ last_loads = 0
    /\ io = [op |-> "none", file |-> BestModel, ok |-> TRUE]
    /\ last_saved = [f \in FileNames |-> <<>>]
    /\ tpc = "idle"
    /\ prd_array = <<>>
    /\ gt_array = <<>>
    /\ result = <<>>
    /\ roc_auc_file = <<>>
    /\ pr_auc_file = <<>>
    /\ CfgIdle

NextSched == ScheduleStep

SpecSched == InitSched /\ [][NextSched]_vars

(***************************************************************************)
(* Solver.save and Solver.load called directly.                            *)
(***************************************************************************)
\* a Solver whose save directory may hold checkpoints written by training runs
InitCkpt ==
    /\ pc = "idle"
    /\ n_epochs = 0
    /\ epoch = 0
    /\ current_optimizer = "adam"
    /\ drop_counter = 0
    /\ best_roc_auc = 0
    /\ roc_auc = 0
    /\ model \in ModelStates
    /\ optimizer = Adam
    /\ files \in [FileNames -> {<<>>} \cup {<<m>> : m \in ModelStates}]
    /\ raised = "none"
    /\ saves = 0
    /\ maxSeen = 0
    /\ topStates = {}
    /\ drift = FALSE
    /\ last_loads = 0
    /\ io = [op |-> "none", file |-> BestModel, ok |-> TRUE]
    /\ last_saved = [f \in FileNames |-> <<>>]
    /\ tpc = "idle"
    /\ prd_array = <<>>
    /\ gt_array = <<>>
    /\ result = <<>>
    /\ roc_auc_file = <<>>
    /\ pr_auc_file = <<>>
    /\ CfgIdle

\* self.save(filename)
CallSave ==
    /\ raised = "none"
    /\ \E f \in FileNames :
         /\ files' = Save(model, files, f)
         /\ last_saved' = [last_saved EXCEPT ![f] = <<model>>]
         /\ io' = [op |-> "save", file |-> f, ok |-> TRUE]
    /\ UNCHANGED <<pc, n_epochs, epoch, current_optimizer, drop_counter, best_roc_auc,
                   roc_auc, model, optimizer, raised, saves, maxSeen, topStates,
                   drift, last_loads, evalVars, cfgVars>>

\* self.load(filename)
CallLoad ==
    /\ raised = "none"
    /\ \E f \in FileNames :
         LET l == Load(model, files, f) IN
         /\ model' = l.model
         /\ raised' = l.raised
         /\ io' = [op |-> "load", file |-> f, ok |-> (l.raised = "none")]
    /\ UNCHANGED <<pc, n_epochs, epoch, current_optimizer, drop_counter, best_roc_auc,
                   roc_auc, optimizer, files, saves, maxSeen, topStates, drift,
                   last_loads, last_saved, evalVars, cfgVars>>

\* the parameters change between the calls (optimizer steps)
Step ==
    /\ raised = "none"
    /\ model' \in ModelStates
    /\ io' = [op |-> "none", file |-> BestModel, ok |-> TRUE]
    /\ UNCHANGED <<pc, n_epochs, epoch, current_optimizer, drop_counter, best_roc_auc,
                   roc_auc, optimizer, files, raised, saves, maxSeen, topStates,
                   drift, last_loads, last_saved, evalVars, cfgVars>>

NextCkpt == CallSave \/ CallLoad \/ Step

SpecCkpt == InitCkpt /\ [][NextCkpt]_vars

(***************************************************************************)
(* Properties of the optimizer schedule and the best-model checkpoint.     *)
(***************************************************************************)
\* the transition test of _schedule that fires for (phase, counter), if any
Fires(cur, dc) ==
    \/ cur = "adam" /\ dc = 60
    \/ cur = "sgd_1" /\ dc = 20
    \/ cur = "sgd_2" /\ dc = 20

\* C1: over a training run the phase only moves adam -> sgd_1 -> sgd_2 ->
\* sgd_3, one step at a time: no phase is skipped or re-entered, and sgd_3
\* is never left.
C1_PhaseOrder ==
    [][current_optimizer' # current_optimizer =>
         <<current_optimizer, current_optimizer'>> \in
             {<<"adam", "sgd_1">>, <<"sgd_1", "sgd_2">>, <<"sgd_2", "sgd_3">>}]_vars

\* a run that went through all the phases and ended in sgd_3
C1_Witness ==
    pc = "done" /\ epoch = MaxEpochs /\ current_optimizer = "sgd_3"

\* C2 (as claimed): right after every phase transition drop_counter is 0.
C2_ResetOnEveryTransition ==
    [][current_optimizer' # current_optimizer => drop_counter' = 0]_vars

\* C2 (amended): drop_counter is 0 right after adam -> sgd_1 and after
\* sgd_1 -> sgd_2; sgd_2 -> sgd_3 leaves it at the 20 it had reached.
C2_ResetOnFirstTwo ==
    [][current_optimizer' # current_optimizer =>
         /\ current_optimizer' \in {"sgd_1", "sgd_2"} => drop_counter' = 0
         /\ current_optimizer' = "sgd_3" => drop_counter' = 20 /\ drop_counter = 20]_vars

\* sgd_3 has just been entered and the counter still reads 20
C2_Witness ==
    pc = "loop" /\ current_optimizer = "sgd_3" /\ drop_counter = 20 /\ epoch = 100

\* C3: drop_counter starts at 0 and grows by one per epoch before the
\* transition test; with a checkpoint available the phase after e completed
\* epochs is adam for e < 60, sgd_1 for 60 <= e < 80, sgd_2 for 80 <= e < 100
\* and sgd_3 from 100 on, so transitions fire at the end of epochs 60, 80 and
\* 100 only, and drop_counter counts the epochs of the current phase.
C3_PhaseLengths ==
    /\ pc \in {"loop", "done"} =>
         /\ current_optimizer = (IF epoch < 60 THEN "adam"
                                 ELSE IF epoch < 80 THEN "sgd_1"
                                 ELSE IF epoch < 100 THEN "sgd_2"
                                 ELSE "sgd_3")
         /\ drop_counter = (IF epoch < 60 THEN epoch
                            ELSE IF epoch < 80 THEN epoch - 60
                            ELSE epoch - 80)
    /\ pc \in {"validate", "save", "schedule"} =>
         /\ current_optimizer = (IF epoch <= 60 THEN "adam"
                                 ELSE IF epoch <= 80 THEN "sgd_1"
                                 ELSE IF epoch <= 100 THEN "sgd_2"
                                 ELSE "sgd_3")
         /\ drop_counter = (IF epoch <= 60 THEN epoch
                            ELSE IF epoch <= 80 THEN epoch - 60
                            ELSE epoch - 80)

\* the 60th epoch has just ended with the first transition
C3_Witness ==
    pc = "loop" /\ epoch = 60 /\ current_optimizer = "sgd_1" /\ drop_counter = 0

\* C4: when a transition test fires and best_model.pth does not exist, the
\* call ends with the not-found error, train() is over, and the phase, the
\* optimizer, drop_counter and the model are as they were.
C4_MissingCheckpointAborts ==
    [][/\ (pc = "schedule" /\ Fires(current_optimizer, drop_counter)
              /\ files[BestModel] = <<>>) =>
            /\ pc' = "aborted"
            /\ raised' = "FileNotFoundError"
            /\ UNCHANGED <<current_optimizer, optimizer, drop_counter, model>>
       /\ pc = "aborted" => UNCHANGED vars]_vars

\* the run that never beat the zero floor, stopped at its 60th epoch
C4_Witness ==
    /\ pc = "aborted" /\ raised = "FileNotFoundError"
    /\ best_roc_auc = 0 /\ saves = 0 /\ epoch = 60
    /\ current_optimizer = "adam" /\ drop_counter = 60

\* C5: best_roc_auc never decreases, and it changes only in the checkpoint
\* step of an epoch whose validation ROC-AUC is strictly greater, to that value.
C5_BestMonotonic ==
    [][/\ best_roc_auc' >= best_roc_auc
       /\ best_roc_auc' # best_roc_auc =>
            pc = "save" /\ roc_auc > best_roc_auc /\ best_roc_auc' = roc_auc
       /\ (pc = "save" /\ roc_auc <= best_roc_auc) => best_roc_auc' = best_roc_auc]_vars

\* after a best above the floor, an epoch validated lower and left it alone
C5_Witness ==
    pc = "schedule" /\ saves > 0 /\ roc_auc < best_roc_auc /\ roc_auc > 0

\* C6: the checkpoint is written in an epoch exactly when its validation
\* ROC-AUC strictly exceeds best_roc_auc, with the model state of that moment;
\* so once written in this run, the file holds, whenever the checkpoint
\* decision of the epoch has been taken, a model state that produced the
\* highest validation ROC-AUC observed so far.
C6_CheckpointIsBest ==
    /\ [][/\ saves' # saves <=> (pc = "save" /\ roc_auc > best_roc_auc)
          /\ saves' # saves => files'[BestModel] = <<model>>
          /\ saves' = saves => files' = files]_vars
    /\ []((saves > 0 /\ pc # "save") =>
            /\ files[BestModel] # <<>>
            /\ files[BestModel][1] \in topStates
            /\ best_roc_auc = maxSeen)

\* the checkpoint was overwritten by a later, better epoch
C6_Witness ==
    /\ pc = "schedule" /\ saves > 1
    /\ files[BestModel] = <<model>> /\ roc_auc = best_roc_auc

\* C7 (as claimed): a Solver.load of a file that Solver.save wrote succeeds
\* and leaves the model with the parameters that were saved.
C7_SaveLoadRoundTrip ==
    (io.op = "load" /\ last_saved[io.file] # <<>>) =>
        (io.ok /\ model = last_saved[io.file][1])

\* C8: every phase transition reloads best_model.pth: right after it the
\* model parameters are the checkpoint's, and when this run wrote the
\* checkpoint they are a state that produced the best ROC-AUC so far.
C8_ReloadOnTransition ==
    /\ [][current_optimizer' # current_optimizer =>
            /\ files[BestModel] # <<>>
            /\ files' = files
            /\ model' = files[BestModel][1]]_vars
    /\ []((pc = "loop" /\ epoch \in {60, 80, 100}) =>
            /\ files[BestModel] = <<model>>
            /\ saves > 0 => model \in topStates)

\* a transition that threw away the weights of the dwell window
C8_Witness ==
    /\ pc = "loop" /\ drift /\ current_optimizer = "sgd_2" /\ epoch = 80
    /\ files[BestModel] = <<model>>

(***************************************************************************)
(* Metrics.  A number stands for the metric value times Scale, so that     *)
(* every quotient below is exact.  An ndarray is [shape, data]: shape <<>> *)
(* is a numpy scalar, <<k>> a vector, <<k, 1>> a column of k rows.         *)
(***************************************************************************)
Fact(n) == IF n <= 1 THEN 1 ELSE IF n = 2 THEN 2 ELSE IF n = 3 THEN 6 ELSE 24
Scale == 2 * Fact(MaxRows) * Fact(MaxRows) * Fact(NumLabels)

\* self.tag_list: the label names, here the labels' numbers
tag_list == [j \in 1..NumLabels |-> j]
\* a ground-truth row: one 0/1 entry per label
TruthRows == [1..NumLabels -> {0, 1}]
\* out = self.model(x): the scores agree with the truth, contradict it, or are flat
PredKinds == {"exact", "flipped", "flat"}
Predict(kind, gt) ==
    [j \in DOMAIN gt |-> IF kind = "exact" THEN gt[j]
                            ELSE IF kind = "flipped" THEN 1 - gt[j]
                            ELSE 0]
\* the score levels a prediction can take, highest first when counted down
Scores == {0, 1}

\* np.zeros((len(labels_list), 1))
Zeros(n) == [shape |-> <<n, 1>>, data |-> [i \in 1..n |-> 0]]
Vector(seq) == [shape |-> <<Len(seq)>>, data |-> seq]
Scalar(v) == [shape |-> <<>>, data |-> <<v>>]

\* y_true.sum(axis=0)[j]
ColSum(y, j) ==
    LET s[i \in 0..Len(y)] == IF i = 0 THEN 0 ELSE s[i - 1] + y[i][j]
    IN s[Len(y)]

\* mutant: only a negative column sum marks a column
DegenerateCols_Strict(y_true, n) == [j \in 1..n |-> ColSum(y_true, j) < 0]

\* cols = y_true.sum(axis=0) <= 0
DegenerateCols(y_true, n) == [j \in 1..n |-> ColSum(y_true, j) <= 0]

\* the indices selected by the mask ~cols, in order
Kept(cols) == SelectSeq([j \in 1..Len(cols) |-> j], LAMBDA j : ~cols[j])

\* mutant: the degenerate columns are left in the tables
FilterCols_None(a, cols) == a

\* a[:, ~cols]
FilterCols(a, cols) ==
    LET keep == Kept(cols)
    IN [i \in 1..Len(a) |-> [k \in 1..Len(keep) |-> a[i][keep[k]]]]

\* sklearn: a column with one class only has no ROC curve
SingleClass(yt, k) == \A i \in 1..Len(yt) : yt[i][k] = yt[1][k]

\* sklearn roc_auc_score of one column: the share of (positive, negative)
\* pairs ranked in the right order, a tie counting one half
ColRoc(yt, yp, k) ==
    LET P == {i \in 1..Len(yt) : yt[i][k] = 1}
        N == {i \in 1..Len(yt) : yt[i][k] = 0}
        won == Cardinality({q \in P \X N : yp[q[1]][k] > yp[q[2]][k]})
        tied == Cardinality({q \in P \X N : yp[q[1]][k] = yp[q[2]][k]})
    IN ((2 * won + tied) * Scale) \div (2 * Cardinality(P) * Cardinality(N))

\* sklearn average_precision_score of one column: the sum over the score
\* thresholds of (recall gained) * (precision at the threshold)
ColAp(yt, yp, k) ==
    LET P == {i \in 1..Len(yt) : yt[i][k] = 1}
        tp(t) == Cardinality({i \in P : yp[i][k] >= t})
        above(t) == Cardinality({i \in P : yp[i][k] > t})
        sel(t) == Cardinality({i \in 1..Len(yt) : yp[i][k] >= t})
        \* (a column without positives, which the filter removes, scores 0)
        term(t) == IF sel(t) = 0 \/ P = {} THEN 0
                   ELSE ((tp(t) - above(t)) * tp(t) * Scale) \div (Cardinality(P) * sel(t))
        MaxScore == CHOOSE t \in Scores : \A u \in Scores : u <= t
        acc[t \in -1..MaxScore] == IF t = -1 THEN 0 ELSE acc[t - 1] + term(t)
    IN acc[MaxScore]

\* the number of columns of a table with at least one row
Width(yt) == Len(yt[1])

\* roc_auc_score(average="macro"): the unweighted mean over the columns handed in
MacroRoc(yt, yp) ==
    LET s[k \in 0..Width(yt)] == IF k = 0 THEN 0 ELSE s[k - 1] + ColRoc(yt, yp, k)
    IN s[Width(yt)] \div Width(yt)

\* average_precision_score(average="macro")
MacroAp(yt, yp) ==
    LET s[k \in 0..Width(yt)] == IF k = 0 THEN 0 ELSE s[k - 1] + ColAp(yt, yp, k)
    IN s[Width(yt)] \div Width(yt)

\* sklearn raises ValueError on a table without columns, and roc_auc_score
\* also on a column with one class only
NoColumns(yt) == Width(yt) = 0
RocRaises(yt) == NoColumns(yt) \/ \E k \in 1..Width(yt) : SingleClass(yt, k)

\* the first try block: label ranking AP, RMSE, macro PR-AUC, macro ROC-AUC in
\* this order; a ValueError keeps what was assigned before it
MacroScores(yt, yp) ==
    IF NoColumns(yt)
    THEN [roc_auc |-> 0, pr_auc |-> 0, failed |-> TRUE]
    ELSE IF RocRaises(yt)
    THEN [roc_auc |-> 0, pr_auc |-> MacroAp(yt, yp), failed |-> TRUE]
    ELSE [roc_auc |-> MacroRoc(yt, yp), pr_auc |-> MacroAp(yt, yp),
          failed |-> FALSE]

\* roc_auc_score(average=None): one value per column, or a bare number when
\* the table has a single column (sklearn takes it for a binary problem)
PerLabelRoc(yt, yp) ==
    IF Width(yt) = 1
    THEN Scalar(ColRoc(yt, yp, 1))
    ELSE Vector([k \in 1..Width(yt) |-> ColRoc(yt, yp, k)])

\* average_precision_score(average=None)
PerLabelAp(yt, yp) ==
    IF Width(yt) = 1
    THEN Scalar(ColAp(yt, yp, 1))
    ELSE Vector([k \in 1..Width(yt) |-> ColAp(yt, yp, k)])

\* the second try block: per-label ROC-AUC, then per-label PR-AUC
PerLabelScores(yt, yp, n) ==
    IF RocRaises(yt)
    THEN [roc_auc_all |-> Zeros(n), pr_auc_all |-> Zeros(n), failed |-> TRUE]
    ELSE [roc_auc_all |-> PerLabelRoc(yt, yp),
          pr_auc_all |-> PerLabelAp(yt, yp), failed |-> FALSE]

\* the loop variable values for which `if cols[i]: continue` does not skip
\* (i counts the retained labels, cols is indexed by the original columns)
Printed(cols) == SelectSeq([k \in 1..Len(Kept(cols)) |-> k], LAMBDA k : ~cols[k])

\* the "Per tag" lines: (fixed_labels_list[i], score_roc_auc_all[i], score_pr_auc_all[i])
Report(labels_list, cols, roc_all, pr_all) ==
    LET keep == Kept(cols)
        rows == Printed(cols)
    IN [r \in 1..Len(rows) |-> [label |-> labels_list[keep[rows[r]]],
                                 roc |-> roc_all.data[rows[r]],
                                 pr |-> pr_all.data[rows[r]]]]

\* get_auc_turbo(y_preds, y_true, labels_list)
GetAucTurbo(y_preds, y_true, labels_list) ==
    IF Len(y_true) = 0
    THEN \* np.array([]) has no column axis: `any(cols)` is not iterable
         [raised |-> "TypeError"]
    ELSE LET n == Len(labels_list)
             cols == DegenerateCols(y_true, n)
             yt == FilterCols(y_true, cols)
             yp == FilterCols(y_preds, cols)
             macro == MacroScores(yt, yp)
             each == PerLabelScores(yt, yp, n)
         IN IF each.roc_auc_all.shape = <<>> /\ Len(Printed(cols)) > 0
            THEN \* score_roc_auc_all[i] on a numpy scalar
                 [raised |-> "IndexError"]
            ELSE [raised |-> "none",
                  cols |-> cols,
                  roc_auc |-> macro.roc_auc,
                  pr_auc |-> macro.pr_auc,
                  roc_auc_all |-> each.roc_auc_all,
                  pr_auc_all |-> each.pr_auc_all,
                  macro_failed |-> macro.failed,
                  each_failed |-> each.failed,
                  report |-> Report(labels_list, cols, each.roc_auc_all, each.pr_auc_all)]

(***************************************************************************)
(* Solver.test                                                             *)
(***************************************************************************)
InitEval ==
    /\ pc = "idle"
    /\ n_epochs = 0
    /\ epoch = 0
    /\ current_optimizer = "adam"
    /\ drop_counter = 0
    /\ best_roc_auc = 0
    /\ roc_auc = 0
    /\ model \in ModelStates
    /\ optimizer = Adam
    \* best_model.pth is absent, or holds the state a training run left
    /\ files \in {[f \in FileNames |-> IF f = BestModel THEN c ELSE <<>>] :
                    c \in {<<>>, <<[p \in ParamNames |-> MaxParam]>>}}
    /\ raised = "none"
    /\ saves = 0
    /\ maxSeen = 0
    /\ topStates = {}
    /\ drift = FALSE
    /\ last_loads = 0
    /\ io = [op |-> "none", file |-> BestModel, ok |-> TRUE]
    /\ last_saved = [f \in FileNames |-> <<>>]
    /\ tpc = "load"
    /\ prd_array = <<>>
    /\ gt_array = <<>>
    /\ result = <<>>
    /\ roc_auc_file = <<>>
    /\ pr_auc_file = <<>>
    /\ CfgIdle

\* self.load(self.model_fn)
TestLoad ==
    /\ tpc = "load"
    /\ LET l == Load(model, files, BestModel) IN
       /\ model' = l.model
       /\ raised' = l.raised
       /\ tpc' = IF l.raised = "none" THEN "batches" ELSE "aborted"
    /\ UNCHANGED <<trainVars, ckptVars, cfgVars, files, prd_array, gt_array, result,
                   roc_auc_file, pr_auc_file>>

\* one iteration of `for x, y in self.data_loader` (a batch of one clip)
TestBatch ==
    /\ tpc = "batches"
    /\ Len(gt_array) < MaxRows
    /\ \E gt \in TruthRows, kind \in PredKinds :
         /\ prd_array' = Append(prd_array, Predict(kind, gt))
         /\ gt_array' = Append(gt_array, gt)
    /\ UNCHANGED <<trainVars, ckptVars, cfgVars, model, files, raised, tpc, result,
                   roc_auc_file, pr_auc_file>>

\* the data loader is exhausted; get_auc_turbo(prd_array, gt_array, self.tag_list)
TestMetrics ==
    /\ tpc = "batches"
    /\ LET r == GetAucTurbo(prd_array, gt_array, tag_list) IN
       /\ result' = <<r>>
       /\ raised' = r.raised
       /\ tpc' = IF r.raised = "none" THEN "persist" ELSE "aborted"
    /\ UNCHANGED <<trainVars, ckptVars, cfgVars, model, files, prd_array, gt_array,
                   roc_auc_file, pr_auc_file>>

\* np.save(self.roc_auc_fn, roc_auc_all); np.save(self.pr_auc_fn, pr_auc_all)
TestPersist ==
    /\ tpc = "persist"
    /\ roc_auc_file' = <<result[1].roc_auc_all>>
    /\ pr_auc_file' = <<result[1].pr_auc_all>>
    /\ tpc' = "done"
    /\ UNCHANGED <<trainVars, ckptVars, cfgVars, model, files, raised, prd_array, gt_array,
                   result>>

NextEval == TestLoad \/ TestBatch \/ TestMetrics \/ TestPersist

SpecEval == InitEval /\ [][NextEval]_vars

(***************************************************************************)
(* Solver._validation on a validation set of four labels whose clips carry *)
(* the ground-truth rows [1,0,1,0], [0,0,1,0] and [1,0,0,0].               *)
(***************************************************************************)
Scenario1 == <<<<1, 0, 1, 0>>, <<0, 0, 1, 0>>, <<1, 0, 0, 0>>>>
ScenarioLabels == [j \in 1..Len(Scenario1[1]) |-> j]

\* the first epoch of train() has reached its validation pass
InitValid ==
    /\ pc = "validate"
    /\ n_epochs = 1
    /\ epoch = 1
    /\ current_optimizer = "adam"
    /\ drop_counter = 1
    /\ best_roc_auc = 0
    /\ roc_auc = 0
    /\ model \in ModelStates
    /\ optimizer = Adam
    /\ files = [f \in FileNames |-> <<>>]
    /\ raised = "none"
    /\ saves = 0
    /\ maxSeen = 0
    /\ topStates = {}
    /\ drift = FALSE
    /\ last_loads = 0
    /\ io = [op |-> "none", file |-> BestModel, ok |-> TRUE]
    /\ last_saved = [f \in FileNames |-> <<>>]
    /\ tpc = "idle"
    /\ prd_array = <<>>
    /\ gt_array = <<>>
    /\ result = <<>>
    /\ roc_auc_file = <<>>
    /\ pr_auc_file = <<>>
    /\ ipc = "built"
    /\ subset = "all"
    /\ split = 0
    /\ is_cuda = FALSE
    /\ self_tag_list = ScenarioLabels
    /\ num_class = Len(ScenarioLabels)
    /\ out_dim = Len(ScenarioLabels)
    /\ roc_auc_fn = FileName("roc_auc_", subset, split)
    /\ pr_auc_fn = FileName("pr_auc_", subset, split)

\* one iteration of `for x, y in self.valid_loader` (a batch of one clip)
ValidBatch ==
    /\ pc = "validate"
    /\ Len(gt_array) < Len(Scenario1)
    /\ \E i \in 1..Len(Scenario1), kind \in PredKinds :
         /\ prd_array' = Append(prd_array, Predict(kind, Scenario1[i]))
         /\ gt_array' = Append(gt_array, Scenario1[i])
    /\ UNCHANGED <<trainVars, ckptVars, cfgVars, model, files, raised, tpc, result,
                   roc_auc_file, pr_auc_file>>

\* the loader is exhausted: roc_auc, pr_auc, _, _ = self.get_auc_turbo(prd_array,
\* gt_array, self.tag_list); return roc_auc, pr_auc
ValidMetrics ==
    /\ pc = "validate"
    /\ LET r == GetAucTurbo(prd_array, gt_array, self_tag_list) IN
       /\ result' = <<r>>
       /\ raised' = r.raised
       /\ IF r.raised = "none"
          THEN roc_auc' = r.roc_auc /\ pc' = "save"
          ELSE roc_auc' = roc_auc /\ pc' = "aborted"
    /\ UNCHANGED <<n_epochs, epoch, current_optimizer, drop_counter, best_roc_auc,
                   optimizer, saves, maxSeen, topStates, drift, last_loads,
                   ckptVars, cfgVars, model, files, tpc, prd_array, gt_array,
                   roc_auc_file, pr_auc_file>>

NextValid == ValidBatch \/ ValidMetrics

SpecValid == InitValid /\ [][NextValid]_vars

(***************************************************************************)
(* Properties of the metrics and of the evaluation run.                    *)
(***************************************************************************)
\* len() of a persisted array, a numpy scalar holding one value
EntryCount(a) == IF a.shape = <<>> THEN 1 ELSE a.shape[1]

\* the labels with at least one positive in the evaluation table
Retained == {j \in 1..NumLabels : \E i \in 1..Len(gt_array) : gt_array[i][j] = 1}

\* every label column is degenerate, or a retained one has positives only
\* (the cases in which sklearn's ROC-AUC raises)
MetricFails ==
    \/ Retained = {}
    \/ \E j \in Retained : \A i \in 1..Len(gt_array) : gt_array[i][j] = 1

\* C9 (as claimed): get_auc_turbo returns normally for every table (here:
\* of at least one row), and when all columns are degenerate or an AUC
\* computation raises, macro ROC-AUC and PR-AUC are 0 and both per-label
\* vectors are zero-filled of the full length.
C9_MetricsNeverAbort ==
    (result # <<>> /\ Len(gt_array) > 0) =>
        /\ result[1].raised = "none"
        /\ MetricFails =>
             /\ result[1].roc_auc = 0
             /\ result[1].pr_auc = 0
             /\ result[1].roc_auc_all = Zeros(NumLabels)
             /\ result[1].pr_auc_all = Zeros(NumLabels)

\* C10 (as claimed): the two persisted per-label vectors have one entry per
\* requested label, whatever columns were filtered out.
C10_PersistedFullLength ==
    tpc = "done" =>
        /\ EntryCount(roc_auc_file[1]) = NumLabels
        /\ EntryCount(pr_auc_file[1]) = NumLabels

\* C10 (amended): test() persists what get_auc_turbo returned: one entry per
\* retained label when the per-label computation succeeded, and the
\* zero-filled column of the full label count only when it failed.
C10_PersistedRetainedLength ==
    tpc = "done" =>
        /\ roc_auc_file = <<result[1].roc_auc_all>>
        /\ pr_auc_file = <<result[1].pr_auc_all>>
        /\ IF MetricFails
           THEN /\ roc_auc_file[1] = Zeros(NumLabels)
                /\ pr_auc_file[1] = Zeros(NumLabels)
           ELSE /\ EntryCount(roc_auc_file[1]) = Cardinality(Retained)
                /\ EntryCount(pr_auc_file[1]) = Cardinality(Retained)
                /\ Len(roc_auc_file[1].shape) <= 1
                /\ Len(pr_auc_file[1].shape) <= 1

\* a table with a filtered column was evaluated and vectors shorter than the
\* label list were persisted
C10_Witness ==
    /\ tpc = "done" /\ ~MetricFails
    /\ Cardinality(Retained) = NumLabels - 1
    /\ roc_auc_file[1].shape = <<NumLabels - 1>>
    /\ pr_auc_file[1].shape = <<NumLabels - 1>>

\* the retained labels in the order of the label list
RetainedSeq == SelectSeq([j \in 1..NumLabels |-> j], LAMBDA j : j \in Retained)

\* the mean over the retained labels of the one-column ROC-AUC, each taken
\* on the column of the unfiltered tables
RetainedMeanRoc ==
    LET s[k \in 0..Len(RetainedSeq)] ==
            IF k = 0 THEN 0
            ELSE s[k - 1] + ColRoc(gt_array, prd_array, RetainedSeq[k])
    IN s[Len(RetainedSeq)] \div Len(RetainedSeq)

\* the same mean of the one-column average precision
RetainedMeanAp ==
    LET s[k \in 0..Len(RetainedSeq)] ==
            IF k = 0 THEN 0
            ELSE s[k - 1] + ColAp(gt_array, prd_array, RetainedSeq[k])
    IN s[Len(RetainedSeq)] \div Len(RetainedSeq)

\* C11: the columns that enter the metrics are exactly those with at least
\* one positive in the ground truth: the mask marks the others, the macro
\* ROC-AUC and PR-AUC are the means over the retained columns alone, and the
\* k-th per-label value is the value of the k-th retained column of the
\* truth paired with the same column of the predictions, in label order.
C11_OnlyPositiveColumnsCount ==
    (result # <<>> /\ result[1].raised = "none") =>
        /\ \A j \in 1..NumLabels : result[1].cols[j] <=> j \notin Retained
        /\ Retained # {} => result[1].pr_auc = RetainedMeanAp
        /\ ~MetricFails =>
             /\ result[1].roc_auc = RetainedMeanRoc
             /\ result[1].roc_auc_all.data =
                  [k \in 1..Len(RetainedSeq) |->
                     ColRoc(gt_array, prd_array, RetainedSeq[k])]
             /\ result[1].pr_auc_all.data =
                  [k \in 1..Len(RetainedSeq) |->
                     ColAp(gt_array, prd_array, RetainedSeq[k])]

\* a table whose middle column has no positive was scored, and the two
\* columns around it gave different per-label values
C11_Witness ==
    /\ result # <<>> /\ result[1].raised = "none" /\ ~MetricFails
    /\ Retained = {1, NumLabels}
    /\ result[1].roc_auc_all.shape = <<2>>
    /\ result[1].roc_auc_all.data[1] # result[1].roc_auc_all.data[2]
    /\ result[1].roc_auc > 0

\* C13 (as claimed): when the per-label computation succeeds, the report
\* lists every retained label exactly once, in order, each with its own
\* ROC-AUC and PR-AUC.
C13_EveryRetainedLabelReported ==
    (result # <<>> /\ result[1].raised = "none" /\ ~MetricFails) =>
        result[1].report =
            [k \in 1..Len(RetainedSeq) |->
               [label |-> tag_list[RetainedSeq[k]],
                roc |-> ColRoc(gt_array, prd_array, RetainedSeq[k]),
                pr |-> ColAp(gt_array, prd_array, RetainedSeq[k])]]

\* C14: test() restores the checkpoint before it reads a batch: no batch is
\* read, no metric computed and no metric file written while the load is
\* pending, and when best_model.pth is absent the run ends in
\* FileNotFoundError with all three still untouched.  A run that reads
\* batches scores the restored parameters.
C14_LoadBeforeBatches ==
    /\ tpc = "load" =>
         gt_array = <<>> /\ prd_array = <<>> /\ result = <<>>
         /\ roc_auc_file = <<>> /\ pr_auc_file = <<>>
    /\ (files[BestModel] = <<>> /\ tpc # "load") =>
         /\ tpc = "aborted" /\ raised = "FileNotFoundError"
         /\ gt_array = <<>> /\ prd_array = <<>> /\ result = <<>>
         /\ roc_auc_file = <<>> /\ pr_auc_file = <<>>
    /\ (gt_array # <<>> \/ result # <<>>) =>
         files[BestModel] # <<>> /\ model = files[BestModel][1]

\* test() was run without a checkpoint and stopped at the load
C14_Witness ==
    /\ tpc = "aborted" /\ raised = "FileNotFoundError"
    /\ files[BestModel] = <<>>
    /\ gt_array = <<>> /\ result = <<>>

(***************************************************************************)
(* Properties of the training loop.                                        *)
(***************************************************************************)
\* the statements of one loop iteration follow each other in their order
LoopOrder ==
    /\ pc = "loop" =>
         \/ pc' = "validate" /\ epoch < n_epochs /\ epoch' = epoch + 1
         \/ pc' = "done" /\ epoch = n_epochs /\ epoch' = epoch
    /\ pc = "validate" => pc' = "save" /\ epoch' = epoch
    /\ pc = "save" => pc' = "schedule" /\ epoch' = epoch
    /\ pc = "schedule" =>
         /\ epoch' = epoch
         /\ pc' = "loop" \/ (pc' = "aborted" /\ raised' # "none")
    /\ pc \in {"done", "aborted"} => pc' = pc
    /\ n_epochs' = n_epochs

C17_OptimizerReplacedOnce ==
    /\ [][optimizer' # optimizer =>
            /\ pc = "schedule"
            /\ CASE current_optimizer = "adam" ->
                      /\ current_optimizer' = "sgd_1"
                      /\ optimizer.algo = "Adam" /\ optimizer.lr = 10
                      /\ optimizer' = [id |-> optimizer.id + 1, algo |-> "SGD",
                                       lr |-> 100, momentum |-> 9,
                                       weight_decay |-> 10, nesterov |-> TRUE]
                 [] current_optimizer = "sgd_1" ->
                      /\ current_optimizer' = "sgd_2"
                      /\ optimizer' = [optimizer EXCEPT !.lr = 10]
                 [] current_optimizer = "sgd_2" ->
                      /\ current_optimizer' = "sgd_3"
                      /\ optimizer' = [optimizer EXCEPT !.lr = 1]
                 [] OTHER -> FALSE]_vars
    /\ [][current_optimizer' # current_optimizer => optimizer' # optimizer]_vars
    /\ [](optimizer.id = IF current_optimizer = "adam" THEN 0 ELSE 1)

\* the last phase runs on the SGD object made by the first transition
C17_Witness ==
    /\ current_optimizer = "sgd_3"
    /\ optimizer.id = 1 /\ optimizer.algo = "SGD" /\ optimizer.lr = 1
    /\ optimizer.momentum = 9 /\ optimizer.nesterov

\* C18: one call of _schedule, on any phase and any counter value, reloads
\* the checkpoint at most once and moves the phase by at most one step; it
\* reloads exactly when a transition test fires.
C18_OneTransitionPerCall ==
    [][pc = "schedule" =>
         /\ last_loads' <= 1
         /\ \/ current_optimizer' = current_optimizer
            \/ <<current_optimizer, current_optimizer'>> \in
                   {<<"adam", "sgd_1">>, <<"sgd_1", "sgd_2">>, <<"sgd_2", "sgd_3">>}
         /\ last_loads' = 1 <=> Fires(current_optimizer, drop_counter)
         /\ current_optimizer' # current_optimizer => last_loads' = 1]_vars

\* the call on (sgd_1, 20) has returned: one reload, phase sgd_2, counter 0
C18_Witness ==
    /\ pc = "loop" /\ last_loads = 1
    /\ current_optimizer = "sgd_2" /\ drop_counter = 0

\* C19: this run has written best_model.pth exactly when best_roc_auc is
\* above 0; an epoch validated at 0 writes nothing; and a run whose first
\* 60 validations all gave 0 comes to the adam -> sgd_1 test with no
\* checkpoint of its own: the reload then raises when no older file is
\* there, and otherwise restores the older file.
C19_WrittenIffBestPositive ==
    /\ [](saves > 0 <=> best_roc_auc > 0)
    /\ [][(pc = "save" /\ roc_auc = 0) => (saves' = saves /\ files' = files)]_vars
    /\ []((pc = "schedule" /\ epoch = 60 /\ maxSeen = 0) =>
            /\ saves = 0
            /\ current_optimizer = "adam" /\ drop_counter = 60)
    /\ [][(pc = "schedule" /\ epoch = 60 /\ maxSeen = 0) =>
            IF files[BestModel] = <<>>
            THEN pc' = "aborted" /\ raised' = "FileNotFoundError"
            ELSE current_optimizer' = "sgd_1" /\ model' = files[BestModel][1]]_vars

\* sixty epochs were validated at 0 and the first transition is due
C19_Witness ==
    /\ pc = "schedule" /\ epoch = 60 /\ maxSeen = 0
    /\ saves = 0 /\ best_roc_auc = 0

(***************************************************************************)
(* Properties of the constructor.                                          *)
(***************************************************************************)
\* C16: with the master list of 183 labels, after the subset is selected
\* self.tag_list is the whole list for 'all', its entries 0..86 for 'genre',
\* 87..126 for 'instrument' and 127..182 for 'moodtheme' (so the three
\* slices are disjoint and cover the list), and the separate list of 50
\* for 'top50tags'; its length is num_class, 183, 87, 40, 56 and 50, and
\* the model is built with num_class outputs.
C16_SubsetSelection ==
    /\ ipc \in {"subset", "names", "built"} =>
         /\ Len(self_tag_list) = num_class
         /\ CASE subset = "all" ->
                   /\ num_class = 183
                   /\ self_tag_list = [i \in 1..183 |-> TagListNpy[i]]
              [] subset = "genre" ->
                   /\ num_class = 87
                   /\ self_tag_list = [i \in 1..87 |-> TagListNpy[i]]
              [] subset = "instrument" ->
                   /\ num_class = 40
                   /\ self_tag_list = [i \in 1..40 |-> TagListNpy[87 + i]]
              [] subset = "moodtheme" ->
                   /\ num_class = 56
                   /\ self_tag_list = [i \in 1..56 |-> TagListNpy[127 + i]]
              [] subset = "top50tags" ->
                   /\ num_class = 50
                   /\ self_tag_list = TagList50Npy
    /\ ipc = "built" => out_dim = Len(self_tag_list)

\* a solver for the instrument subset was constructed
C16_Witness ==
    /\ ipc = "built" /\ subset = "instrument"
    /\ Len(self_tag_list) = 40 /\ out_dim = 40
    /\ self_tag_list[1] = TagListNpy[88] /\ self_tag_list[40] = TagListNpy[127]

(***************************************************************************)
(* The degenerate-column filter on the rows of scenario 1.                 *)
(***************************************************************************)
\* the number of columns the mask leaves in
KeptCount(cols) == Cardinality({j \in 1..Len(cols) : ~cols[j]})

\* C12 (as claimed): on the ground truth [[1,0,1,0],[0,0,1,0],[1,0,0,0]]
\* with four labels the filter drops the column at index 1 and three labels
\* are retained.
C12_ScenarioKeepsThree ==
    (pc = "save" /\ gt_array = Scenario1) =>
        /\ result[1].cols[2]
        /\ KeptCount(result[1].cols) = 3

\* C12 (amended): on that ground truth the columns at index 1 and index 3
\* both sum to 0: the filter drops both, two labels are retained, and the
\* per-label vectors have two entries.
C12_ScenarioKeepsTwo ==
    (pc = "save" /\ gt_array = Scenario1) =>
        /\ result[1].cols = <<FALSE, TRUE, FALSE, TRUE>>
        /\ KeptCount(result[1].cols) = 2
        /\ result[1].roc_auc_all.shape = <<2>>
        /\ result[1].pr_auc_all.shape = <<2>>

\* the three rows of the scenario were validated in the scenario's order
C12_Witness ==
    /\ pc = "save" /\ gt_array = Scenario1
    /\ result[1].raised = "none"
    /\ result[1].cols[2] /\ result[1].cols[4]

=============================================================================
